---- MODULE Spec2Model ----
(***************************************************************************)
(* Multi-tenant SaaS platform: tenant data access, usage metering from the *)
(* change stream, billing summaries and onboarding.                        *)
(*                                                                         *)
(* The three Lambda handlers are modelled with the stores they talk to:    *)
(* the tenant data table, the billing counter table, the billing queue and *)
(* the identity provider.  An API request is one atomic step (it makes at  *)
(* most one store call).  A stream batch runs on a processing lane, one    *)
(* store or queue call per step, so that batches for the same tenant       *)
(* interleave at the granularity of the calls they make.                   *)
(***************************************************************************)
EXTENDS Integers, Sequences, FiniteSets, Bags, TLC

(***************************************************************************)
(* Bounds of the model.                                                    *)
(***************************************************************************)
MaxRecords == 2      \* stream records delivered in one behaviour

\* Two concurrent executions of the handlers: what one of them does
\* interleaves with what the other does.
Lanes == {1, 2}

Tenants == {"A", "B"}
Items == {"i1", "i2"}
Emails == {"admin@acme.com"}

\* user.get("tenant_id") of a request without that claim is None
NoClaim == "None"
ClaimValues == Tenants \cup {NoClaim}

(***************************************************************************)
(* Numbers as they travel in stream records: a DynamoDB N attribute is a   *)
(* string.  ABSENT stands for a record without NewImage.usage.N.           *)
(***************************************************************************)
ABSENT == "<absent>"
NumberStrings == {"0", "1", "2", "-1"}
UsageStrings == NumberStrings \cup {"abc", ABSENT}

\* DynamoDB accepts a string as a number, Python's int() parses it
IsNumber(s) == s \in NumberStrings

ToInt(s) ==
    CASE s = "0" -> 0
      [] s = "1" -> 1
      [] s = "2" -> 2
      [] s = "-1" -> -1

(***************************************************************************)
(* Stream records.  hasKeys = FALSE is a record without                    *)
(* dynamodb.Keys.tenant_id.                                                *)
(***************************************************************************)
StreamRecord(name, keys, t, u) ==
    [eventName |-> name, hasKeys |-> keys, tenant_id |-> t, usage |-> u]

RecordPool ==
    { StreamRecord("INSERT", TRUE, "A", u) : u \in {"1", "-1", "abc"} }
    \cup { StreamRecord("MODIFY", TRUE, "A", ABSENT),
           StreamRecord("MODIFY", TRUE, "B", "1"),
           StreamRecord("REMOVE", TRUE, "A", "1"),
           StreamRecord("INSERT", FALSE, "A", "1") }

Batches == UNION { [1..n -> RecordPool] : n \in 1..MaxRecords }

VARIABLES
    tenantTable,    \* items of the tenant data table
    billingTable,   \* items of the billing counter table
    queue,          \* bag of the messages published to the billing queue
    identity,       \* identity provider accounts, by username
    lane            \* per lane: the invocation it runs and where it is

vars == <<tenantTable, billingTable, queue, identity, lane>>

(***************************************************************************)
(* The stores.  A table is the set of its items; the key of the tenant     *)
(* data table is (tenant_id, item_id), the key of the billing table is     *)
(* tenant_id.                                                              *)
(***************************************************************************)
TenantItem(t, i, d) == [tenant_id |-> t, item_id |-> i, data |-> d]
CounterItem(t, n) == [tenant_id |-> t, usage_count |-> n]

\* dynamodb.get_item on the tenant data table: the items under the key
GetTenantItem(table, t, i) ==
    { x \in table : x.tenant_id = t /\ x.item_id = i }

\* dynamodb.get_item on the billing table
GetCounterItem(table, t) == { x \in table : x.tenant_id = t }

\* "SET usage_count = usage_count + :val" is refused by the store when the
\* item or its usage_count attribute does not exist, or :val is no number
UpdateRefusal(table, t, val) ==
    IF ~IsNumber(val) THEN "NotANumber"
    ELSE IF GetCounterItem(table, t) = {} THEN "NoSuchAttribute"
    ELSE "none"

\* "SET usage_count = :val": the counter is overwritten, not incremented
UpdateItemOverwrite(table, t, val) ==
    { IF x.tenant_id = t THEN CounterItem(t, ToInt(val)) ELSE x : x \in table }

\* an update without the key condition: the delta is added to the counter
\* of every tenant, created where there is none
UpdateItemAnyKey(table, t, val) ==
    { CounterItem(u, (IF GetCounterItem(table, u) = {} THEN 0
                      ELSE (CHOOSE x \in GetCounterItem(table, u) : TRUE).usage_count)
                     + ToInt(val)) : u \in Tenants }

\* the table after the store applied the update expression, in one step
UpdateItem(table, t, val) ==
    { IF x.tenant_id = t
        THEN CounterItem(t, x.usage_count + ToInt(val))
        ELSE x : x \in table }

\* item.get("usage_count", {}).get("N", "0") read as an int
UsageCount(table, t) ==
    IF GetCounterItem(table, t) = {} THEN 0
    ELSE (CHOOSE x \in GetCounterItem(table, t) : TRUE).usage_count

(***************************************************************************)
(* What a request did, in order: the tenant check and the calls it issued  *)
(* to the stores, the queue and the identity provider.                     *)
(***************************************************************************)
Call(op, target, t) ==
    [op |-> op, target |-> target, claimed |-> "-", tenant_id |-> t, ok |-> TRUE]
Check(user, t, ok) ==
    [op |-> "check", target |-> "-", claimed |-> user, tenant_id |-> t, ok |-> ok]

\* the tenant check left out: every caller passes
AuthorizedAnyone(user, tenant_id) == TRUE

\* a check that is skipped when the request carries no claim: "if
\* user.get('tenant_id') and user.get('tenant_id') != tenant_id"
AuthorizedUnlessClaimed(user, tenant_id) == user = NoClaim \/ user = tenant_id

\* user.get("tenant_id") != tenant_id, negated
Authorized(user, tenant_id) == user = tenant_id

Result(raised, value, trace) ==
    [raised |-> raised, value |-> value, trace |-> trace]

UNAUTHORIZED == "Unauthorized tenant access"
STORE_ERROR == "ClientError: dynamodb call failed"
NAME_ERROR == "name 'json' is not defined"
KEY_ERROR == "KeyError"

(***************************************************************************)
(* TenantService                                                           *)
(***************************************************************************)
\* a get_tenant_data that reads the item first and compares afterwards
GetTenantDataReadFirst(table, tenant_id, item_id, user, storeOk) ==
    LET trace == <<Call("get_item", "tenant", tenant_id),
                   Check(user, tenant_id, Authorized(user, tenant_id))>>
    IN  IF ~storeOk THEN Result(STORE_ERROR, {}, <<trace[1]>>)
        ELSE IF ~Authorized(user, tenant_id)
        THEN Result(UNAUTHORIZED, {}, trace)
        ELSE Result("", GetTenantItem(table, tenant_id, item_id), trace)

\* a get_tenant_data that subscripts the response, response["Item"], and so
\* raises for a key without an item
GetTenantDataStrict(table, tenant_id, item_id, user, storeOk) ==
    IF ~Authorized(user, tenant_id)
    THEN Result(UNAUTHORIZED, {}, <<Check(user, tenant_id, FALSE)>>)
    ELSE LET trace == <<Check(user, tenant_id, TRUE),
                        Call("get_item", "tenant", tenant_id)>>
         IN  IF ~storeOk THEN Result(STORE_ERROR, {}, trace)
             ELSE IF GetTenantItem(table, tenant_id, item_id) = {}
             THEN Result(KEY_ERROR, {}, trace)
             ELSE Result("", GetTenantItem(table, tenant_id, item_id), trace)

GetTenantData(table, tenant_id, item_id, user, storeOk) ==
    IF ~Authorized(user, tenant_id)
    THEN Result(UNAUTHORIZED, {}, <<Check(user, tenant_id, FALSE)>>)
    ELSE LET trace == <<Check(user, tenant_id, TRUE),
                        Call("get_item", "tenant", tenant_id)>>
         IN  IF ~storeOk THEN Result(STORE_ERROR, {}, trace)
             ELSE Result("", GetTenantItem(table, tenant_id, item_id), trace)

\* the names tenant_service.py binds at module level are boto3, Dict,
\* Optional, setup_logger, Config and MetricsCollector: json is not one
TenantServiceHasJson == FALSE

\* json.dumps(data), the string stored under "data"
JsonDumps(data) == <<"json", data>>

\* dynamodb.put_item: unconditional overwrite of the item under the key
PutItem(table, item) ==
    (table \ GetTenantItem(table, item.tenant_id, item.item_id)) \cup {item}

\* The Item argument of put_item is built before the call: without json
\* the NameError is raised and put_item is not called
StoreTenantData(table, tenant_id, item_id, data, user, storeOk) ==
    IF ~Authorized(user, tenant_id)
    THEN Result(UNAUTHORIZED, table, <<Check(user, tenant_id, FALSE)>>)
    ELSE IF ~TenantServiceHasJson
    THEN Result(NAME_ERROR, table, <<Check(user, tenant_id, TRUE)>>)
    ELSE LET trace == <<Check(user, tenant_id, TRUE),
                        Call("put_item", "tenant", tenant_id)>>
         IN  IF ~storeOk THEN Result(STORE_ERROR, table, trace)
             ELSE Result("", PutItem(table,
                                 TenantItem(tenant_id, item_id, JsonDumps(data))),
                         trace)

(***************************************************************************)
(* API responses                                                           *)
(***************************************************************************)
Response(status, body) == [statusCode |-> status, body |-> body]
ErrorBody(text) == [kind |-> "error", text |-> text]
MessageBody(text) == [kind |-> "message", text |-> text]
ItemBody(item) == [kind |-> "item", item |-> item]

\* "<template> in path": the substrings among the paths of the model
Contains(path, template) ==
    \/ path = template
    \/ /\ path = "/tenants/{tenant_id}/data/{item_id}"
       /\ template = "/tenants/{tenant_id}/data"

TenantPaths == {"/tenants/{tenant_id}/data/{item_id}",
                "/tenants/{tenant_id}/data",
                "/tenants/A/data/i1"}
BillingPaths == {"/billing/{tenant_id}", "/billing/A"}
OnboardingPaths == {"/onboarding", "/onboarding/"}
Methods == {"GET", "POST"}
Payloads == {"p1", "p2"}

\* metrics.record_error() in the except block of a service method, which
\* then re-raises: the number of Errors data points it puts
RecordErrorInService(raised) == IF raised # "" THEN 1 ELSE 0

\* metrics.record_error() in "except Exception" of a lambda_handler
RecordErrorInHandler(raised) == IF raised # "" THEN 1 ELSE 0

\* tenant_management/handler.py lambda_handler: the operation the request
\* is routed to, its response and what it did
TenantHandler(table, ev, storeOk) ==
    IF ev.httpMethod = "GET"
       /\ Contains(ev.path, "/tenants/{tenant_id}/data/{item_id}")
    THEN LET r == GetTenantData(table, ev.tenant_id, ev.item_id, ev.claim, storeOk)
         IN  [op |-> "tenant_get", table |-> table, trace |-> r.trace,
              errors |-> RecordErrorInService(r.raised)
                         + RecordErrorInHandler(r.raised),
              response |->
                 IF r.raised # "" THEN Response(500, ErrorBody(r.raised))
                 ELSE IF r.value = {}
                      THEN Response(404, ErrorBody("Item not found"))
                      ELSE Response(200, ItemBody(CHOOSE x \in r.value : TRUE))]
    ELSE IF ev.httpMethod = "POST"
            /\ Contains(ev.path, "/tenants/{tenant_id}/data")
    THEN LET r == StoreTenantData(table, ev.tenant_id, ev.item_id, ev.data,
                                  ev.claim, storeOk)
         IN  [op |-> "tenant_store", table |-> r.value, trace |-> r.trace,
              errors |-> RecordErrorInService(r.raised)
                         + RecordErrorInHandler(r.raised),
              response |->
                 IF r.raised # "" THEN Response(500, ErrorBody(r.raised))
                 ELSE Response(201, MessageBody("Data stored"))]
    ELSE [op |-> "invalid", table |-> table, trace |-> <<>>, errors |-> 0,
          response |-> Response(400, ErrorBody("Invalid request"))]

(***************************************************************************)
(* BillingService.get_billing_summary and the API branch of the billing    *)
(* handler.  Money is counted in thousandths of a unit (mills) before      *)
(* rounding and in hundredths (cents) after it.                            *)
(***************************************************************************)
CostPerUnitMills == 10     \* cost_per_unit = 0.01

\* round(x) of an amount of x mills, in cents: the amount is rounded to
\* whole units instead of hundredths
RoundToUnits(mills) ==
    100 * ((mills + 500) \div 1000)

\* round(x, 2) of an amount of x mills, in cents: nearest, ties to even
RoundToCents(mills) ==
    LET q == mills \div 10
        r == mills % 10
    IN  IF r < 5 THEN q
        ELSE IF r > 5 THEN q + 1
        ELSE IF q % 2 = 0 THEN q ELSE q + 1

\* a get_billing_summary that subscripts the item, item["usage_count"]["N"],
\* and so raises for a tenant without a counter item
GetBillingSummaryStrict(table, tenant_id, storeOk) ==
    LET trace == <<Call("get_item", "billing", tenant_id)>>
    IN  IF ~storeOk THEN Result(STORE_ERROR, {}, trace)
        ELSE IF GetCounterItem(table, tenant_id) = {}
        THEN Result(KEY_ERROR, {}, trace)
        ELSE Result("",
                    [kind |-> "summary",
                     tenant_id |-> tenant_id,
                     usage_count |-> UsageCount(table, tenant_id),
                     total_cost |->
                        RoundToCents(UsageCount(table, tenant_id) * CostPerUnitMills)],
                    trace)

GetBillingSummary(table, tenant_id, storeOk) ==
    LET trace == <<Call("get_item", "billing", tenant_id)>>
    IN  IF ~storeOk THEN Result(STORE_ERROR, {}, trace)
        ELSE LET usage_count == UsageCount(table, tenant_id)
             IN  Result("",
                        [kind |-> "summary",
                         tenant_id |-> tenant_id,
                         usage_count |-> usage_count,
                         total_cost |-> RoundToCents(usage_count * CostPerUnitMills)],
                        trace)

BillingHandler(table, ev, storeOk) ==
    IF ev.httpMethod = "GET" /\ Contains(ev.path, "/billing/{tenant_id}")
    THEN IF ~Authorized(ev.claim, ev.tenant_id)
         THEN [op |-> "billing_get",
               trace |-> <<Check(ev.claim, ev.tenant_id, FALSE)>>,
               errors |-> 0,
               response |-> Response(403, ErrorBody("Unauthorized"))]
         ELSE LET r == GetBillingSummary(table, ev.tenant_id, storeOk)
              IN  [op |-> "billing_get",
                   trace |-> <<Check(ev.claim, ev.tenant_id, TRUE)>> \o r.trace,
                   errors |-> RecordErrorInService(r.raised)
                              + RecordErrorInHandler(r.raised),
                   response |->
                      IF r.raised # "" THEN Response(500, ErrorBody(r.raised))
                      ELSE Response(200, r.value)]
    ELSE [op |-> "invalid", trace |-> <<>>, errors |-> 0,
          response |-> Response(400, ErrorBody("Invalid request"))]

(***************************************************************************)
(* OnboardingService.register_tenant and the onboarding handler            *)
(***************************************************************************)
TenantNames == {"Acme"}

Account(email, t, status) ==
    [username |-> email, tenant_id |-> t, status |-> status]

\* the names onboarding_service.py binds at module level are boto3, uuid,
\* Dict, setup_logger, Config and MetricsCollector: json and datetime are not
OnboardingServiceHasJson == FALSE

IDP_ERROR == "ClientError: cognito-idp call failed"

\* a register_tenant that compensates: when a later step fails the account
\* is deleted again
RegisterTenantCompensating(accounts, table, tenant_id, tenant_name, email, signUpOk, confirmOk, storeOk) ==
    LET exists == \E a \in accounts : a.username = email
        t1 == <<Call("sign_up", "identity", tenant_id)>>
        t2 == t1 \o <<Call("admin_confirm_sign_up", "identity", tenant_id)>>
        out(raised, trace) ==
            [raised |-> raised, accounts |-> accounts, table |-> table,
             trace |-> trace]
    IN  IF ~signUpOk \/ exists THEN out(IDP_ERROR, t1)
        ELSE IF ~confirmOk THEN out(IDP_ERROR, t2)
        ELSE out(NAME_ERROR, t2)

\* a register_tenant that writes the tenant_info item first and signs the
\* user up afterwards
RegisterTenantWritesFirst(accounts, table, tenant_id, tenant_name, email, signUpOk, confirmOk, storeOk) ==
    LET exists == \E a \in accounts : a.username = email
        written == PutItem(table, TenantItem(tenant_id, "tenant_info",
                                             JsonDumps(tenant_name)))
        t1 == <<Call("put_item", "tenant", tenant_id)>>
        t2 == t1 \o <<Call("sign_up", "identity", tenant_id)>>
        t3 == t2 \o <<Call("admin_confirm_sign_up", "identity", tenant_id)>>
        out(raised, acc, tab, trace) ==
            [raised |-> raised, accounts |-> acc, table |-> tab, trace |-> trace]
    IN  IF ~storeOk THEN out(STORE_ERROR, accounts, table, t1)
        ELSE IF ~signUpOk \/ exists THEN out(IDP_ERROR, accounts, written, t2)
        ELSE IF ~confirmOk
        THEN out(IDP_ERROR,
                 accounts \cup {Account(email, tenant_id, "UNCONFIRMED")},
                 written, t3)
        ELSE out("", accounts \cup {Account(email, tenant_id, "CONFIRMED")},
                 written, t3)

\* the state left behind and the outcome of register_tenant
RegisterTenant(accounts, table, tenant_id, tenant_name, email, signUpOk, confirmOk, storeOk) ==
    LET exists == \E a \in accounts : a.username = email
        signedUp == accounts \cup {Account(email, tenant_id, "UNCONFIRMED")}
        confirmed == accounts \cup {Account(email, tenant_id, "CONFIRMED")}
        t1 == <<Call("sign_up", "identity", tenant_id)>>
        t2 == t1 \o <<Call("admin_confirm_sign_up", "identity", tenant_id)>>
        t3 == t2 \o <<Call("put_item", "tenant", tenant_id)>>
        out(raised, acc, tab, trace) ==
            [raised |-> raised, accounts |-> acc, table |-> tab, trace |-> trace]
    IN  IF ~signUpOk \/ exists THEN out(IDP_ERROR, accounts, table, t1)
        ELSE IF ~confirmOk THEN out(IDP_ERROR, signedUp, table, t2)
        ELSE IF ~OnboardingServiceHasJson THEN out(NAME_ERROR, confirmed, table, t2)
        ELSE IF ~storeOk THEN out(STORE_ERROR, confirmed, table, t3)
        ELSE out("", confirmed,
                 PutItem(table, TenantItem(tenant_id, "tenant_info",
                                           JsonDumps(tenant_name))),
                 t3)

OnboardingHandler(accounts, table, ev, tenant_id, signUpOk, confirmOk, storeOk) ==
    IF ev.httpMethod = "POST" /\ ev.path = "/onboarding"
    THEN LET r == RegisterTenant(accounts, table, tenant_id, ev.tenant_name,
                                 ev.email, signUpOk, confirmOk, storeOk)
         IN  [op |-> "onboarding", accounts |-> r.accounts, table |-> r.table,
              trace |-> r.trace,
              errors |-> RecordErrorInService(r.raised)
                         + RecordErrorInHandler(r.raised),
              response |->
                 IF r.raised # "" THEN Response(500, ErrorBody(r.raised))
                 ELSE Response(201, [kind |-> "tenant", tenant_id |-> tenant_id])]
    ELSE [op |-> "invalid", accounts |-> accounts, table |-> table,
          trace |-> <<>>, errors |-> 0,
          response |-> Response(400, ErrorBody("Invalid request"))]

(***************************************************************************)
(* The stream branch of the billing handler and BillingService.track_usage *)
(***************************************************************************)
NoExchange ==
    [op |-> "none", claim |-> NoClaim, tenant_id |-> "-", item_id |-> "-",
     response |-> Response(0, MessageBody("")), trace |-> <<>>]

IdleLane ==
    [pc |-> "idle", batch |-> <<>>, i |-> 0, applied |-> {},
     published |-> {}, failure |-> "none", statusCode |-> 0, errors |-> 0,
     exchange |-> NoExchange]

\* every record counts as usage, whatever its eventName
IsAnyEvent(rec) == rec.eventName \in {"INSERT", "MODIFY", "REMOVE"}

\* record["eventName"] in ["INSERT", "MODIFY"]
IsUsageEvent(rec) == rec.eventName \in {"INSERT", "MODIFY"}

\* record.get("NewImage", {}).get("usage", {}).get("N", "0")
UsageOf(rec) == IF rec.usage = ABSENT THEN "0" ELSE rec.usage

\* the record the loop of lane l is at
Current(l) == lane[l].batch[lane[l].i]
InLoop(l) == lane[l].pc = "records" /\ lane[l].i <= Len(lane[l].batch)

\* the loop moves on to the next record
NextRecord(ln) == [ln EXCEPT !.pc = "records", !.i = @ + 1]

\* a handler that lets the exception escape to the stream source
HandlerReraise(ln, cause) ==
    [ln EXCEPT !.pc = "raised", !.failure = cause]

\* "except Exception" of lambda_handler: the error is logged and counted,
\* and the handler returns a 500 response
HandlerExcept(ln, cause) ==
    [ln EXCEPT !.pc = "returned", !.statusCode = 500, !.failure = cause,
               !.errors = @ + RecordErrorInHandler(cause)]

\* an except block that compensates: the delta is taken back
TrackUsageRollback(table, t, val) ==
    { IF x.tenant_id = t /\ IsNumber(val)
        THEN CounterItem(t, x.usage_count - ToInt(val))
        ELSE x : x \in table }

\* "except Exception" of track_usage: log, count, re-raise; no store call
TrackUsageExcept(table, t, val) == table

\* the error metric of that except block
TrackUsageRecordError(ln, cause) ==
    [ln EXCEPT !.errors = @ + RecordErrorInService(cause)]

\* json.dumps({"tenant_id": tenant_id, "usage": int(usage)})
UsageMessage(t, val) == [tenant_id |-> t, usage |-> ToInt(val)]

\* stream records delivered so far, over all lanes
RECURSIVE Delivered(_)
Delivered(ls) ==
    IF ls = {} THEN 0
    ELSE LET l == CHOOSE x \in ls : TRUE
         IN  Len(lane[l].batch) + Delivered(ls \ {l})

DeliverBatch(l) ==
    /\ lane[l].pc = "idle"
    /\ \E b \in Batches :
          /\ Delivered(Lanes) + Len(b) <= MaxRecords
          /\ lane' = [lane EXCEPT ![l] = [IdleLane EXCEPT !.pc = "records",
                                                          !.batch = b, !.i = 1]]
    /\ UNCHANGED <<tenantTable, billingTable, queue, identity>>

\* a record that is neither INSERT nor MODIFY is passed over
SkipRecord(l) ==
    /\ InLoop(l)
    /\ ~IsUsageEvent(Current(l))
    /\ lane' = [lane EXCEPT ![l] = NextRecord(@)]
    /\ UNCHANGED <<tenantTable, billingTable, queue, identity>>

\* record["dynamodb"]["Keys"]["tenant_id"] raises KeyError
MalformedRecord(l) ==
    /\ InLoop(l)
    /\ IsUsageEvent(Current(l))
    /\ ~Current(l).hasKeys
    /\ lane' = [lane EXCEPT ![l] = HandlerExcept(@, KEY_ERROR)]
    /\ UNCHANGED <<tenantTable, billingTable, queue, identity>>

TracksUsage(l) ==
    /\ InLoop(l)
    /\ IsUsageEvent(Current(l))
    /\ Current(l).hasKeys

\* track_usage up to update_item, when the store applies the update
UpdateUsage(l) ==
    /\ TracksUsage(l)
    /\ LET t == Current(l).tenant_id
           val == UsageOf(Current(l))
       IN  /\ UpdateRefusal(billingTable, t, val) = "none"
           /\ billingTable' = UpdateItem(billingTable, t, val)
           /\ lane' = [lane EXCEPT ![l].pc = "send",
                                   ![l].applied = @ \cup {lane[l].i}]
    /\ UNCHANGED <<tenantTable, queue, identity>>

\* a track_usage that swallows the failure of update_item and goes on to
\* send_message
UpdateUsageFailsThenPublishes(l) ==
    /\ TracksUsage(l)
    /\ UpdateRefusal(billingTable, Current(l).tenant_id, UsageOf(Current(l))) # "none"
    /\ queue' = queue (+) SetToBag({[tenant_id |-> Current(l).tenant_id,
                                     usage |-> 0]})
    /\ lane' = [lane EXCEPT ![l] = NextRecord([@ EXCEPT !.published =
                                                   @ \cup {lane[l].i}])]
    /\ UNCHANGED <<tenantTable, billingTable, identity>>

\* track_usage up to update_item, when the call raises: the store refuses
\* the update or cannot be reached
UpdateUsageFails(l) ==
    /\ TracksUsage(l)
    /\ LET t == Current(l).tenant_id
           val == UsageOf(Current(l))
       IN  \E cause \in {UpdateRefusal(billingTable, t, val), "StoreError"} :
              /\ cause # "none"
              /\ billingTable' = TrackUsageExcept(billingTable, t, val)
              /\ lane' = [lane EXCEPT ![l] =
                            HandlerExcept(TrackUsageRecordError(@, cause), cause)]
    /\ UNCHANGED <<tenantTable, queue, identity>>

\* the rest of track_usage: send_message, then back to the loop
PublishUsage(l) ==
    /\ lane[l].pc = "send"
    /\ queue' = queue (+) SetToBag({UsageMessage(Current(l).tenant_id,
                                                  UsageOf(Current(l)))})
    /\ lane' = [lane EXCEPT ![l] = NextRecord([@ EXCEPT !.published =
                                                   @ \cup {lane[l].i}])]
    /\ UNCHANGED <<tenantTable, billingTable, identity>>

\* send_message raises after the counter was updated
PublishUsageFails(l) ==
    /\ lane[l].pc = "send"
    /\ billingTable' = TrackUsageExcept(billingTable, Current(l).tenant_id,
                                        UsageOf(Current(l)))
    /\ lane' = [lane EXCEPT ![l] =
                  HandlerExcept(TrackUsageRecordError(@, "QueueError"),
                                "QueueError")]
    /\ UNCHANGED <<tenantTable, queue, identity>>

\* the loop is over: {"statusCode": 200, "body": "Usage processed"}
StreamReturn(l) ==
    /\ lane[l].pc = "records"
    /\ lane[l].i > Len(lane[l].batch)
    /\ lane' = [lane EXCEPT ![l].pc = "returned", ![l].statusCode = 200]
    /\ UNCHANGED <<tenantTable, billingTable, queue, identity>>

(***************************************************************************)
(* API requests.  A request runs on a free lane, in one step; the lane     *)
(* holds the exchange until the response is delivered.                     *)
(***************************************************************************)
Exchange(op, ev, response, trace) ==
    [op |-> op, claim |-> ev.claim, tenant_id |-> ev.tenant_id,
     item_id |-> ev.item_id, response |-> response, trace |-> trace]

Responded(exchange, errors) ==
    [IdleLane EXCEPT !.pc = "responded", !.exchange = exchange,
                     !.statusCode = exchange.response.statusCode,
                     !.errors = errors]

TenantEvents ==
    [httpMethod : Methods, path : TenantPaths, claim : ClaimValues,
     tenant_id : Tenants, item_id : Items, data : Payloads]

BillingEvents ==
    [httpMethod : Methods, path : BillingPaths, claim : ClaimValues,
     tenant_id : Tenants, item_id : {"-"}]

OnboardingEvents ==
    [httpMethod : Methods, path : OnboardingPaths, claim : {NoClaim},
     tenant_id : {"-"}, item_id : {"-"}, tenant_name : TenantNames,
     email : Emails]

TenantRequest(l) ==
    /\ lane[l].pc = "idle"
    /\ \E ev \in TenantEvents, storeOk \in BOOLEAN :
          LET h == TenantHandler(tenantTable, ev, storeOk)
          IN  /\ tenantTable' = h.table
              /\ lane' = [lane EXCEPT ![l] =
                            Responded(Exchange(h.op, ev, h.response, h.trace),
                                      h.errors)]
    /\ UNCHANGED <<billingTable, queue, identity>>

BillingRequest(l) ==
    /\ lane[l].pc = "idle"
    /\ \E ev \in BillingEvents, storeOk \in BOOLEAN :
          LET h == BillingHandler(billingTable, ev, storeOk)
          IN  lane' = [lane EXCEPT ![l] =
                         Responded(Exchange(h.op, ev, h.response, h.trace),
                                      h.errors)]
    /\ UNCHANGED <<tenantTable, billingTable, queue, identity>>

\* str(uuid.uuid4()): an identifier no account and no item carries.  The
\* identifiers are opaque, so the first free one stands for any of them.
Uuid4(accounts, table) ==
    LET used == { a.tenant_id : a \in accounts } \cup { x.tenant_id : x \in table }
    IN  IF "t-1" \notin used THEN "t-1"
        ELSE IF "t-2" \notin used THEN "t-2"
        ELSE "t-3"

OnboardingRequest(l) ==
    /\ lane[l].pc = "idle"
    /\ \E ev \in OnboardingEvents,
          signUpOk \in BOOLEAN, confirmOk \in BOOLEAN, storeOk \in BOOLEAN :
          LET h == OnboardingHandler(identity, tenantTable, ev,
                                     Uuid4(identity, tenantTable),
                                     signUpOk, confirmOk, storeOk)
          IN  /\ identity' = h.accounts
              /\ tenantTable' = h.table
              /\ lane' = [lane EXCEPT ![l] =
                            Responded(Exchange(h.op, ev, h.response, h.trace),
                                      h.errors)]
    /\ UNCHANGED <<billingTable, queue>>

\* the response is handed to the caller and the lane is free again
Respond(l) ==
    /\ lane[l].pc = "responded"
    /\ lane' = [lane EXCEPT ![l] = IdleLane]
    /\ UNCHANGED <<tenantTable, billingTable, queue, identity>>

(***************************************************************************)
(* The system                                                              *)
(***************************************************************************)
\* The tables are resources outside the code: the tenant data table holds
\* one item of each tenant; tenant A's counter item was provisioned with
\* usage_count 0 and tenant B has no counter item yet.
Init ==
    /\ tenantTable = { TenantItem("A", "i1", JsonDumps("p1")),
                       TenantItem("B", "i1", JsonDumps("p2")) }
    /\ billingTable = { CounterItem("A", 0) }
    /\ queue = EmptyBag
    /\ identity = {}
    /\ lane = [l \in Lanes |-> IdleLane]

Next ==
    \/ \E l \in Lanes : DeliverBatch(l)
    \/ \E l \in Lanes : SkipRecord(l)
    \/ \E l \in Lanes : MalformedRecord(l)
    \/ \E l \in Lanes : UpdateUsage(l)
    \/ \E l \in Lanes : UpdateUsageFails(l)
    \/ \E l \in Lanes : PublishUsage(l)
    \/ \E l \in Lanes : PublishUsageFails(l)
    \/ \E l \in Lanes : StreamReturn(l)
    \/ \E l \in Lanes : TenantRequest(l)
    \/ \E l \in Lanes : BillingRequest(l)
    \/ \E l \in Lanes : OnboardingRequest(l)
    \/ \E l \in Lanes : Respond(l)

Spec == Init /\ [][Next]_vars

(***************************************************************************)
(* Properties                                                              *)
(***************************************************************************)
\* the API exchanges whose response is held by a lane
Exchanges == { lane[l].exchange : l \in { k \in Lanes : lane[k].pc = "responded" } }

GuardedOps == {"tenant_get", "tenant_store", "billing_get"}

\* a request with the identity of one tenant for the data of another
CrossTenant(x) ==
    /\ x.op \in GuardedOps
    /\ x.claim \in Tenants
    /\ x.claim # x.tenant_id

\* a call that reads or writes the tenant data table or reads the billing
\* table
IsStoreAccess(e) ==
    /\ e.op \in {"get_item", "put_item"}
    /\ e.target \in {"tenant", "billing"}

\* C1: a request with tenant A's identity for tenant B's data, counter or
\* summary is rejected on read, write and billing read: the status is no
\* success, the body is an error that carries no item and no usage figures,
\* and the request issued no call to a store.
C1_CrossTenantRejected ==
    \A x \in Exchanges :
       CrossTenant(x) =>
          /\ x.response.statusCode \notin 200..299
          /\ x.response.body.kind = "error"
          /\ x.response.body.text \in {UNAUTHORIZED, "Unauthorized"}
          /\ \A k \in DOMAIN x.trace : ~IsStoreAccess(x.trace[k])

\* tenant A read the item tenant B holds, while tenant B asked for tenant
\* A's bill
C1_Witness ==
    /\ lane[1].pc = "responded"
    /\ lane[1].exchange.op = "tenant_get"
    /\ lane[1].exchange.claim = "A"
    /\ lane[1].exchange.tenant_id = "B"
    /\ GetTenantItem(tenantTable, "B", lane[1].exchange.item_id) # {}
    /\ lane[2].pc = "responded"
    /\ lane[2].exchange.op = "billing_get"
    /\ lane[2].exchange.claim = "B"
    /\ lane[2].exchange.tenant_id = "A"
    /\ GetCounterItem(billingTable, "A") # {}

C3_AccessDeniedIsDistinct ==
    \A x \in Exchanges :
       (x.op \in GuardedOps /\ x.claim # x.tenant_id)
          => x.response.statusCode \notin {404, 500}

(***************************************************************************)
(* Usage metering                                                          *)
(***************************************************************************)
\* the usage events a lane holds: (lane, index) of the INSERT and MODIFY
\* records with a tenant_id
UsageEvents ==
    { p \in Lanes \X (1..MaxRecords) :
         /\ p[2] \in DOMAIN lane[p[1]].batch
         /\ IsUsageEvent(lane[p[1]].batch[p[2]])
         /\ lane[p[1]].batch[p[2]].hasKeys }

RecordAt(p) == lane[p[1]].batch[p[2]]

RECURSIVE SumOfDeltas(_)
SumOfDeltas(ps) ==
    IF ps = {} THEN 0
    ELSE LET p == CHOOSE q \in ps : TRUE
         IN  ToInt(UsageOf(RecordAt(p))) + SumOfDeltas(ps \ {p})

\* the events of tenant t whose update_item was applied by the store
AppliedEvents(t) ==
    { p \in UsageEvents : RecordAt(p).tenant_id = t /\ p[2] \in lane[p[1]].applied }

\* no lane is in the middle of a batch
Quiescent == \A l \in Lanes : lane[l].pc \in {"idle", "returned", "responded"}

\* every record delivered is an INSERT or MODIFY with a tenant_id and an
\* integer delta, and no call to the store or the queue failed
OnlyIntegerUsageEvents ==
    /\ \A l \in Lanes : \A j \in DOMAIN lane[l].batch :
          /\ <<l, j>> \in UsageEvents
          /\ IsNumber(lane[l].batch[j].usage)
    /\ \A l \in Lanes : lane[l].failure \notin {"StoreError", "QueueError"}

\* C4: when the Insert/Modify events of a tenant, with integer deltas, have
\* all been handled, in whatever order and however split into batches, the
\* tenant's usage counter (0 before the first event) is the sum of the
\* deltas.
C4_CounterIsSumOfDeltas ==
    (Quiescent /\ OnlyIntegerUsageEvents) =>
       \A t \in Tenants :
          UsageCount(billingTable, t) =
             SumOfDeltas({ p \in UsageEvents : RecordAt(p).tenant_id = t })

\* C5: track_usage for a tenant without a counter item does not fail for
\* the lack of it: the counter is created from 0 and holds the delta.
C5_FirstUsageCreatesCounter ==
    \A l \in Lanes : lane[l].failure # "NoSuchAttribute"

\* an event the store would accept: a usage event with a number for a
\* tenant whose counter item exists
Appliable(rec) ==
    /\ IsUsageEvent(rec)
    /\ rec.hasKeys
    /\ UpdateRefusal(billingTable, rec.tenant_id, UsageOf(rec)) = "none"

\* C6: when one event of a batch fails, every other Insert/Modify event of
\* the batch, before or after it, has its delta added to its tenant's
\* counter by the time the handler returns.
C6_SiblingEventsProcessed ==
    \A l \in Lanes :
       (lane[l].pc = "returned" /\ lane[l].failure # "none") =>
          \A j \in DOMAIN lane[l].batch :
             (j # lane[l].i /\ Appliable(lane[l].batch[j]))
                => j \in lane[l].applied

\* C7: whatever the interleaving of the track_usage calls of the lanes, a
\* counter holds its first value (0) plus the deltas of all the update_item
\* calls the store applied to it: no increment is lost.
C7_NoLostUpdate ==
    \A x \in billingTable :
       x.usage_count = SumOfDeltas(AppliedEvents(x.tenant_id))

\* two calls for tenant A are in flight at once, each past its increment
C7_Witness ==
    /\ \A l \in Lanes :
          /\ lane[l].pc = "send"
          /\ Current(l).tenant_id = "A"
          /\ ToInt(UsageOf(Current(l))) = 1
    /\ UsageCount(billingTable, "A") = 2

\* C8: a send_message that fails after the update_item of the same call
\* leaves the counter with the delta added, and the counters only ever
\* change by an update_item adding the delta of the event at hand: nothing
\* restores an earlier value.
C8_NoRollback ==
    [][ /\ \A l \in Lanes :
             (lane[l].pc = "send" /\ lane'[l].failure = "QueueError")
                => billingTable' = billingTable
        /\ billingTable' # billingTable =>
             \E l \in Lanes :
                /\ TracksUsage(l)
                /\ lane'[l].pc = "send"
                /\ \A t \in Tenants :
                      UsageCount(billingTable', t) =
                         UsageCount(billingTable, t)
                         + (IF t = Current(l).tenant_id
                              THEN ToInt(UsageOf(Current(l))) ELSE 0)
      ]_vars

\* the publish of an event with delta 1 failed and the counter holds the 1
C8_Witness ==
    \E l \in Lanes :
       /\ lane[l].failure = "QueueError"
       /\ lane[l].applied = {1}
       /\ lane[l].batch[1].tenant_id = "A"
       /\ lane[l].batch[1].usage = "1"
       /\ UsageCount(billingTable, "A") = 1

\* C9: the billing handler never lets an exception escape from a stream
\* batch: whatever fails, the invocation ends by returning a response.
C9_StreamHandlerReturns ==
    \A l \in Lanes :
       /\ lane[l].pc # "raised"
       /\ lane[l].failure # "none" =>
             (lane[l].pc = "returned" /\ lane[l].statusCode = 500)

\* a batch failed at its second record on the store and the handler
\* returned
C9_Witness ==
    \E l \in Lanes :
       /\ lane[l].pc = "returned"
       /\ lane[l].failure = "StoreError"
       /\ lane[l].i = 2

\* C10: every usage_count is a non-negative integer.
C10_UsageCountNonNegative ==
    \A x \in billingTable : x.usage_count \in Nat

(***************************************************************************)
(* Tenant data round trip and onboarding                                   *)
(***************************************************************************)
\* lane l took a tenant management request for store_tenant_data in this
\* step
StoresTenantData(l) ==
    /\ lane[l].pc = "idle"
    /\ lane'[l].pc = "responded"
    /\ lane'[l].exchange.op = "tenant_store"

\* C11: an authorized store_tenant_data(T, I, P), the store being
\* reachable, is followed by a state in which an authorized
\* get_tenant_data(T, I) returns without raising the item that holds P.
C11_StoreThenGet ==
    [][ \A l \in Lanes :
           StoresTenantData(l) =>
              \A ev \in TenantEvents :
                 LET h == TenantHandler(tenantTable, ev, TRUE)
                     g == GetTenantData(tenantTable', ev.tenant_id, ev.item_id,
                                        ev.tenant_id, TRUE)
                 IN  ( /\ Authorized(ev.claim, ev.tenant_id)
                       /\ h.op = "tenant_store"
                       /\ lane'[l].exchange =
                             Exchange(h.op, ev, h.response, h.trace)
                       /\ tenantTable' = h.table )
                     => /\ g.raised = ""
                        /\ g.value = { TenantItem(ev.tenant_id, ev.item_id,
                                                  JsonDumps(ev.data)) }
      ]_vars

\* the exchange ended on a failure of a call to the identity provider or to
\* the store
DependencyFailed(x) ==
    /\ x.response.body.kind = "error"
    /\ x.response.body.text \in {IDP_ERROR, STORE_ERROR}

\* C12: when sign_up, admin_confirm_sign_up and put_item all succeed,
\* register_tenant returns a non-empty tenant_id and the tenant data table
\* holds an item under (tenant_id, "tenant_info") with the tenant name.
C12_RegisterTenantStoresInfo ==
    \A x \in Exchanges :
       (x.op = "onboarding" /\ ~DependencyFailed(x)) =>
          /\ x.response.statusCode = 201
          /\ x.response.body.kind = "tenant"
          /\ x.response.body.tenant_id # ""
          /\ \E name \in TenantNames :
                TenantItem(x.response.body.tenant_id, "tenant_info",
                           JsonDumps(name)) \in tenantTable

\* the calls of a trace, by name
Ops(trace) == [k \in DOMAIN trace |-> trace[k].op]

RegisterSteps == <<"sign_up", "admin_confirm_sign_up", "put_item">>

\* lane l took an onboarding request in this step
RegistersTenant(l) ==
    /\ lane[l].pc = "idle"
    /\ lane'[l].pc = "responded"
    /\ lane'[l].exchange.op = "onboarding"

\* C13: register_tenant calls sign_up, admin_confirm_sign_up and put_item in
\* that order; when a step fails no later step is executed, the error of
\* that step reaches the caller, and what the earlier steps did stays: the
\* account registered or confirmed so far is still there, as it was left.
C13_RegisterTenantAborts ==
    [][ \A l \in Lanes :
           RegistersTenant(l) =>
              LET x == lane'[l].exchange
                  n == Len(x.trace)
                  t == x.trace[1].tenant_id
                  failed == x.response.body.kind = "error"
                  cause == x.response.body.text
              IN  /\ n \in 1..3
                  /\ Ops(x.trace) = SubSeq(RegisterSteps, 1, n)
                  /\ identity \subseteq identity'
                  /\ ~failed => n = 3
                  /\ failed =>
                       /\ x.response.statusCode = 500
                       /\ cause \in {IDP_ERROR, NAME_ERROR, STORE_ERROR}
                       /\ tenantTable' = tenantTable
                       /\ (cause = IDP_ERROR) = (n = 1 \/ (n = 2 /\
                             \E e \in Emails :
                                Account(e, t, "UNCONFIRMED") \in identity'))
                       /\ (n = 1) => identity' = identity
                       /\ (n = 2) =>
                             \E e \in Emails, s \in {"UNCONFIRMED", "CONFIRMED"} :
                                identity' = identity \cup {Account(e, t, s)}
                       /\ (cause \in {NAME_ERROR, STORE_ERROR}) =>
                             \E e \in Emails :
                                Account(e, t, "CONFIRMED") \in identity'
      ]_vars

\* admin_confirm_sign_up failed: the request stopped there with the error
\* and the account sign_up created is still registered, unconfirmed
C13_Witness ==
    \E l \in Lanes :
       /\ lane[l].pc = "responded"
       /\ lane[l].exchange.op = "onboarding"
       /\ lane[l].exchange.response.body = ErrorBody(IDP_ERROR)
       /\ Ops(lane[l].exchange.trace) = <<"sign_up", "admin_confirm_sign_up">>
       /\ \E e \in Emails :
             Account(e, lane[l].exchange.trace[1].tenant_id, "UNCONFIRMED")
                \in identity

(***************************************************************************)
(* Billing summaries                                                       *)
(***************************************************************************)
\* an exchange of the tenant's own billing summary request
OwnSummary(x) == x.op = "billing_get" /\ Authorized(x.claim, x.tenant_id)

\* C14: get_billing_summary for a tenant without a counter item does not
\* fail for the lack of it: unless the store itself cannot be reached it
\* returns usage_count 0 and total_cost 0.
C14_NoCounterMeansZero ==
    \A x \in Exchanges :
       (OwnSummary(x) /\ GetCounterItem(billingTable, x.tenant_id) = {}) =>
          \/ x.response = Response(500, ErrorBody(STORE_ERROR))
          \/ /\ x.response.statusCode = 200
             /\ x.response.body.kind = "summary"
             /\ x.response.body.usage_count = 0
             /\ x.response.body.total_cost = 0

\* tenant B, which has no counter item, got its summary
C14_Witness ==
    \E x \in Exchanges :
       /\ OwnSummary(x)
       /\ x.tenant_id = "B"
       /\ GetCounterItem(billingTable, "B") = {}
       /\ x.response.statusCode = 200
       /\ x.response.body.usage_count = 0

\* lane l took a billing request that returned the tenant's summary in
\* this step
ReturnsSummary(l) ==
    /\ lane[l].pc = "idle"
    /\ lane'[l].pc = "responded"
    /\ OwnSummary(lane'[l].exchange)
    /\ lane'[l].exchange.response.statusCode = 200

\* C15: a summary returned for a tenant whose counter holds n carries
\* usage_count = n and, as total_cost, n times the cost per unit rounded to
\* hundredths (10 units at 0.01 cost 0.1, that is 10 hundredths), and the
\* request leaves every counter as it was.
C15_SummaryIsRoundedCost ==
    [][ \A l \in Lanes :
           ReturnsSummary(l) =>
              LET body == lane'[l].exchange.response.body
                  n == UsageCount(billingTable, lane'[l].exchange.tenant_id)
              IN  /\ body.usage_count = n
                  /\ 10 * body.total_cost - 5 <= n * CostPerUnitMills
                  /\ n * CostPerUnitMills <= 10 * body.total_cost + 5
                  /\ (n = 0 => body.total_cost = 0)
                  /\ RoundToCents(10 * CostPerUnitMills) = 10
                  /\ billingTable' = billingTable
      ]_vars

\* tenant A's counter is 2 and the summary just returned says 2 units for
\* 0.02
C15_Witness ==
    \E x \in Exchanges :
       /\ OwnSummary(x)
       /\ x.tenant_id = "A"
       /\ x.response.statusCode = 200
       /\ x.response.body.usage_count = 2
       /\ x.response.body.total_cost = 2
       /\ UsageCount(billingTable, "A") = 2

(***************************************************************************)
(* Errors                                                                  *)
(***************************************************************************)
\* C16: a request or a batch that ended on an error put exactly one data
\* point on the error metric: what a service method counted before
\* re-raising is not counted again by the handler that catches it.
C16_ErrorCountedOnce ==
    \A l \in Lanes :
       (lane[l].pc \in {"responded", "returned"} /\ lane[l].statusCode = 500)
          => lane[l].errors = 1

\* str(e) of the exceptions the store and the identity provider raise
DependencyExceptionTexts == {STORE_ERROR, IDP_ERROR}

\* C17: a server-error response of the tenant management, billing or
\* onboarding handler is opaque: its body never carries the text of the
\* exception a store or identity provider call raised.
C17_OpaqueServerError ==
    \A x \in Exchanges :
       x.response.statusCode = 500 =>
          /\ x.response.body.kind = "error"
          /\ x.response.body.text \notin DependencyExceptionTexts

\* lane l took an authorized tenant management request for get_tenant_data
\* in this step, and the store answered
ReadsTenantData(l) ==
    /\ lane[l].pc = "idle"
    /\ lane'[l].pc = "responded"
    /\ lane'[l].exchange.op = "tenant_get"
    /\ Authorized(lane'[l].exchange.claim, lane'[l].exchange.tenant_id)
    /\ lane'[l].exchange.response # Response(500, ErrorBody(STORE_ERROR))

\* C18: an authorized get_tenant_data for a key under which the table holds
\* no item returns None and raises nothing, and the tenant management
\* handler answers with the not-found status (404), not a server error.
C18_AbsentKeyIsNotFound ==
    [][ \A l \in Lanes :
           LET x == lane'[l].exchange
           IN  ( /\ ReadsTenantData(l)
                 /\ GetTenantItem(tenantTable, x.tenant_id, x.item_id) = {} )
               => /\ x.response = Response(404, ErrorBody("Item not found"))
                  /\ lane'[l].errors = 0
      ]_vars

\* tenant A asked for an item it does not hold and got not-found
C18_Witness ==
    \E x \in Exchanges :
       /\ x.op = "tenant_get"
       /\ x.claim = "A" /\ x.tenant_id = "A"
       /\ GetTenantItem(tenantTable, "A", x.item_id) = {}
       /\ x.response.statusCode = 404

(***************************************************************************)
(* Usage events with a malformed delta, and the order of update and        *)
(* publish                                                                 *)
(***************************************************************************)
\* the batch of lane l ended on an exception at the record the loop was at
FailedAtRecord(l) ==
    /\ lane[l].failure # "none"
    /\ lane[l].i \in DOMAIN lane[l].batch

\* C19: a usage event whose delta is absent or is no number counts as
\* delta 0: unless the store or the queue cannot be reached, track_usage
\* does not raise for it and the batch goes on.
C19_MalformedDeltaIsZero ==
    \A l \in Lanes :
       ( /\ FailedAtRecord(l)
         /\ IsUsageEvent(Current(l))
         /\ Current(l).hasKeys
         /\ ~IsNumber(Current(l).usage) )
       => lane[l].failure \in {"StoreError", "QueueError"}

\* the usage events whose message was handed to the queue
PublishedEvents == { p \in UsageEvents : p[2] \in lane[p[1]].published }

MessageOf(p) == UsageMessage(RecordAt(p).tenant_id, UsageOf(RecordAt(p)))

\* C20: the message {tenant_id, usage} of an event is on the queue only if
\* the update_item of that same event was applied before: an event whose
\* update failed has no message, and the queue holds one message for each
\* published event and nothing else.
C20_PublishAfterUpdate ==
    /\ \A l \in Lanes : lane[l].published \subseteq lane[l].applied
    /\ \A l \in Lanes :
          (FailedAtRecord(l) /\ lane[l].i \notin lane[l].applied)
             => lane[l].i \notin lane[l].published
    /\ \A p \in PublishedEvents : BagIn(MessageOf(p), queue)
    /\ \A m \in BagToSet(queue) :
          CopiesIn(m, queue) =
             Cardinality({ p \in PublishedEvents : MessageOf(p) = m })

\* one batch updated tenant A's counter and then published the message;
\* another failed at its update and published nothing
C20_Witness ==
    \E l \in Lanes, k \in Lanes :
       /\ lane[l].applied = {1}
       /\ lane[l].published = {1}
       /\ BagIn(UsageMessage("A", "1"), queue)
       /\ lane[k].failure = "NoSuchAttribute"
       /\ lane[k].published = {}
       /\ BagCardinality(queue) = 1

(***************************************************************************)
(* Frame conditions                                                        *)
(***************************************************************************)
\* lane l is at a Remove record and takes the step
ProcessesRemove(l) ==
    /\ InLoop(l)
    /\ Current(l).eventName = "REMOVE"
    /\ lane'[l] # lane[l]

\* C21: processing a Remove record changes no counter and publishes no
\* message, and the loop goes on with the next record of the batch.
C21_RemoveChangesNothing ==
    [][ \A l \in Lanes :
           ProcessesRemove(l) =>
              /\ billingTable' = billingTable
              /\ queue' = queue
              /\ lane'[l] = NextRecord(lane[l])
              /\ lane'[l].failure = "none"
      ]_vars

\* a batch began with a Remove record for tenant A, and the record after
\* it was applied and published; the counter holds that record's delta only
C21_Witness ==
    \E l \in Lanes :
       /\ Len(lane[l].batch) = 2
       /\ lane[l].batch[1] = StreamRecord("REMOVE", TRUE, "A", "1")
       /\ lane[l].batch[2] = StreamRecord("INSERT", TRUE, "A", "1")
       /\ lane[l].applied = {2}
       /\ lane[l].published = {2}
       /\ lane[l].pc = "returned"
       /\ lane[l].statusCode = 200
       /\ UsageCount(billingTable, "A") = 1
       /\ BagCardinality(queue) = 1

\* the tenant the step of lane l works for: the tenant of the stream record
\* at hand or of the request just answered; "-" when the step is for none
TenantOfStep(l) ==
    IF InLoop(l) \/ lane[l].pc = "send" THEN Current(l).tenant_id
    ELSE IF lane'[l].pc = "responded" THEN lane'[l].exchange.tenant_id
    ELSE "-"

\* what the tables hold for tenant u
TenantState(items, counters, u) ==
    [items |-> { x \in items : x.tenant_id = u },
     counter |-> GetCounterItem(counters, u)]

Unclaimed(x) == x.op \in GuardedOps /\ x.claim = NoClaim

\* C24: a request without a tenant_id claim is rejected on data read, data
\* write and billing read, whatever tenant_id it asks for: the status is no
\* success, the body is an error, and no call to a store was issued.
C24_NoClaimRejected ==
    \A x \in Exchanges :
       Unclaimed(x) =>
          /\ x.tenant_id \in Tenants
          /\ x.response.statusCode \in {403, 500}
          /\ x.response.body.kind = "error"
          /\ Len(x.trace) = 1
          /\ x.trace[1] = Check(NoClaim, x.tenant_id, FALSE)

\* a request without a claim asked to store data for tenant B and another
\* asked for tenant A's bill
C24_Witness ==
    /\ \E x \in Exchanges :
          /\ Unclaimed(x)
          /\ x.op = "tenant_store"
          /\ x.tenant_id = "B"
          /\ x.response.statusCode = 500
    /\ \E x \in Exchanges :
          /\ Unclaimed(x)
          /\ x.op = "billing_get"
          /\ x.tenant_id = "A"
          /\ x.response.statusCode = 403
    /\ tenantTable = { TenantItem("A", "i1", JsonDumps("p1")),
                       TenantItem("B", "i1", JsonDumps("p2")) }

====
